---- MODULE Spec2Model ----
(***************************************************************************)
(* Model of create_timelapse.py: the Surabaya pixel-art timelapse          *)
(* generator.  Strings are sequences of one-character strings, so that     *)
(* split, slicing, int() and string comparison are computed, not assumed.  *)
(***************************************************************************)
EXTENDS Integers, Sequences, FiniteSets, TLC

VARIABLES
    env_w, env_h, ds, im0, sizer_pc, sizer_ret,
    filename, index, ts_pc, ts_ret,
    folder, loc_pc, loc_ret,
    fit_src, fit_target, fit_pc, fit_ret,
    USE_MAP, map_file, _BG_CACHE, bg_log, bg_images,
    pc, corrupt, KEEP_FRAMES, SKIP_LATEST_COPY, temp_dir, i, visited, written,
    encoder, encoder_calls, created, output, latest, latest_touched,
    alias_failed, exit_code

sizerVars == <<env_w, env_h, ds, im0, sizer_pc, sizer_ret>>

tsVars == <<filename, index, ts_pc, ts_ret>>

locVars == <<folder, loc_pc, loc_ret>>

fitVars == <<fit_src, fit_target, fit_pc, fit_ret>>

bgVars == <<USE_MAP, map_file, _BG_CACHE, bg_log, bg_images>>

mainVars ==
    <<pc, corrupt, KEEP_FRAMES, SKIP_LATEST_COPY, temp_dir, i, visited,
      written, encoder, encoder_calls, created, output, latest,
      latest_touched, alias_failed, exit_code>>

vars == <<sizerVars, tsVars, locVars, fitVars, bgVars, mainVars>>

(***************************************************************************)
(* Strings                                                                 *)
(***************************************************************************)

\* Decimal digits, in order: Digits[d + 1] is the character of digit d.
Digits == <<"0", "1", "2", "3", "4", "5", "6", "7", "8", "9">>

IsDigit(c) == \E d \in 1..10 : Digits[d] = c

DigitVal(c) == (CHOOSE d \in 1..10 : Digits[d] = c) - 1

\* str(n) for a natural number n.
RECURSIVE IntToStr(_)
IntToStr(n) ==
    IF n < 10 THEN <<Digits[n + 1]>>
    ELSE IntToStr(n \div 10) \o <<Digits[(n % 10) + 1]>>

\* The characters of the model in code-point order, for string comparison.
CodePoints ==
    <<" ", "+", "-", ".", "0", "1", "2", "3", "4", "5", "6", "7", "8", "9",
      "F", "_", "a", "b", "c", "d", "e", "f", "g", "h", "i", "j", "k", "l",
      "m", "n", "o", "p", "q", "r", "s", "t", "u", "v", "w", "x", "y", "z">>

Ord(c) == CHOOSE k \in 1..Len(CodePoints) : CodePoints[k] = c

\* a <= b for Python strings: lexicographic by code point.
RECURSIVE StrLeq(_, _)
StrLeq(a, b) ==
    IF a = <<>> THEN TRUE
    ELSE IF b = <<>> THEN FALSE
    ELSE IF Head(a) = Head(b) THEN StrLeq(Tail(a), Tail(b))
    ELSE Ord(Head(a)) < Ord(Head(b))

\* s.split(c): the pieces between the occurrences of the character c.
RECURSIVE Split(_, _)
Split(s, c) ==
    IF \A k \in 1..Len(s) : s[k] # c THEN <<s>>
    ELSE LET k == CHOOSE j \in 1..Len(s) :
                      s[j] = c /\ \A m \in 1..(j - 1) : s[m] # c
         IN  <<SubSeq(s, 1, k - 1)>> \o Split(SubSeq(s, k + 1, Len(s)), c)

\* s.strip() for the blank character.
RECURSIVE LStrip(_)
LStrip(s) == IF s # <<>> /\ Head(s) = " " THEN LStrip(Tail(s)) ELSE s

RECURSIVE RStrip(_)
RStrip(s) ==
    IF s # <<>> /\ s[Len(s)] = " " THEN RStrip(SubSeq(s, 1, Len(s) - 1)) ELSE s

Strip(s) == RStrip(LStrip(s))

\* The value of a run of digits and single underscores between digits.
RECURSIVE DigitsValue(_, _)
DigitsValue(s, acc) ==
    IF s = <<>> THEN acc
    ELSE IF Head(s) = "_" THEN DigitsValue(Tail(s), acc)
    ELSE DigitsValue(Tail(s), acc * 10 + DigitVal(Head(s)))

\* The body of an integer literal: digits, with single underscores only
\* between two digits.
IsIntBody(s) ==
    /\ s # <<>>
    /\ IsDigit(s[1])
    /\ IsDigit(s[Len(s)])
    /\ \A k \in 1..Len(s) : IsDigit(s[k]) \/ s[k] = "_"
    /\ \A k \in 1..(Len(s) - 1) : ~(s[k] = "_" /\ s[k + 1] = "_")

\* int(s): [ok |-> TRUE, val |-> n], or ok = FALSE where Python raises
\* ValueError.
ParseInt(s) ==
    LET t == Strip(s)
        signed == t # <<>> /\ Head(t) \in {"+", "-"}
        body == IF signed THEN Tail(t) ELSE t
    IN  IF IsIntBody(body)
        THEN [ok |-> TRUE,
              val |-> IF signed /\ Head(t) = "-"
                      THEN 0 - DigitsValue(body, 0)
                      ELSE DigitsValue(body, 0)]
        ELSE [ok |-> FALSE, val |-> 0]

(***************************************************************************)
(* Environment variables                                                   *)
(***************************************************************************)

\* os.getenv(name): None when the variable is not in the environment.
Unset == [isSet |-> FALSE, s |-> <<>>]

EnvStr(s) == [isSet |-> TRUE, s |-> s]

\* Python truthiness of os.getenv(name): a non-empty string.
Truthy(v) == v.isSet /\ v.s # <<>>

(***************************************************************************)
(* determine_video_size                                                    *)
(***************************************************************************)

DEFAULT_VIDEO_WIDTH == 3000

DEFAULT_VIDEO_HEIGHT == 3000

\* Width from which a capture is halved automatically.
AutoHalfMinWidth == 4000

\* The first image of the list as determine_video_size sees it.
NoImage == [kind |-> "none", sw |-> 0, sh |-> 0]

BadImage == [kind |-> "unreadable", sw |-> 0, sh |-> 0]

ImageOfSize(w, h) == [kind |-> "ok", sw |-> w, sh |-> h]

\* The forced size is taken when both variables are non-empty and int()
\* accepts both.
ForcedSize(w, h) ==
    LET pw == ParseInt(w.s)
        ph == ParseInt(h.s)
    IN  IF Truthy(w) /\ Truthy(h) /\ pw.ok /\ ph.ok
        THEN [taken |-> TRUE, w |-> pw.val, h |-> ph.val]
        ELSE [taken |-> FALSE, w |-> 0, h |-> 0]

\* The divisor branch: DOWNSCALE_FACTOR non-empty, an integer f > 1 that
\* divides both dimensions.
DownscaleApplies(d, sw, sh) ==
    LET pf == ParseInt(d.s)
    IN  /\ Truthy(d)
        /\ pf.ok
        /\ pf.val > 1
        /\ sw % pf.val = 0
        /\ sh % pf.val = 0

AutoHalfAppliesStrict(sw, sh) ==
    sw > AutoHalfMinWidth /\ sw % 2 = 0 /\ sh % 2 = 0

AutoHalfApplies(sw, sh) ==
    sw >= AutoHalfMinWidth /\ sw % 2 = 0 /\ sh % 2 = 0

determine_video_size(w, h, d, first) ==
    LET forced == ForcedSize(w, h)
    IN  IF forced.taken THEN <<forced.w, forced.h>>
        ELSE IF first.kind = "ok"
        THEN IF DownscaleApplies(d, first.sw, first.sh)
             THEN <<first.sw \div ParseInt(d.s).val,
                    first.sh \div ParseInt(d.s).val>>
             ELSE IF AutoHalfApplies(first.sw, first.sh)
             THEN <<first.sw \div 2, first.sh \div 2>>
             ELSE <<first.sw, first.sh>>
        ELSE <<DEFAULT_VIDEO_WIDTH, DEFAULT_VIDEO_HEIGHT>>

\* Values of VIDEO_WIDTH and VIDEO_HEIGHT tried.
SizeSettings ==
    {Unset, EnvStr(<<>>), EnvStr(<<"8", "0", "0">>), EnvStr(<<"6", "0", "0">>),
     EnvStr(<<"0">>), EnvStr(<<"-", "5">>), EnvStr(<<"8", "x">>),
     EnvStr(<<" ", "7">>)}

\* Values of DOWNSCALE_FACTOR tried.
DivisorSettings ==
    {Unset, EnvStr(<<>>), EnvStr(<<"2">>), EnvStr(<<"3">>), EnvStr(<<"1">>),
     EnvStr(<<"0">>), EnvStr(<<"-", "2">>), EnvStr(<<"2", ".", "0">>),
     EnvStr(<<"1", "_", "0">>)}

\* Image dimensions tried: 1..MaxSmallDim and the widths within HalfMargin of
\* the auto-half threshold.
MaxSmallDim == 4

HalfMargin == 2

SizerDims ==
    (1..MaxSmallDim)
        \cup ((AutoHalfMinWidth - HalfMargin)..(AutoHalfMinWidth + HalfMargin))

FirstImages ==
    {NoImage, BadImage} \cup {ImageOfSize(w, h) : w \in SizerDims, h \in SizerDims}

SizerInit ==
    /\ env_w \in SizeSettings
    /\ env_h \in SizeSettings
    /\ ds \in DivisorSettings
    /\ im0 \in FirstImages
    /\ sizer_pc = "call"
    /\ sizer_ret = <<0, 0>>

SizerIdle ==
    /\ env_w = Unset
    /\ env_h = Unset
    /\ ds = Unset
    /\ im0 = NoImage
    /\ sizer_pc = "idle"
    /\ sizer_ret = <<0, 0>>

DetermineVideoSize ==
    /\ sizer_pc = "call"
    /\ sizer_ret' = determine_video_size(env_w, env_h, ds, im0)
    /\ sizer_pc' = "done"
    /\ UNCHANGED <<env_w, env_h, ds, im0>>
    /\ UNCHANGED <<tsVars, locVars, fitVars, bgVars, mainVars>>

SizerNext == DetermineVideoSize

(***************************************************************************)
(* build_timestamp                                                         *)
(***************************************************************************)

\* The date and time fields have the expected lengths.
FieldLengthsOk(d, t) == Len(d) = 8 /\ Len(t) = 6

FrameLabel(pos) == <<"F", "r", "a", "m", "e", " ">> \o IntToStr(pos + 1)

build_timestamp(fname, pos) ==
    LET parts == Split(fname, "_")
    IN  IF Len(parts) >= 4
        THEN LET d == parts[3]
                 t == Split(parts[4], ".")[1]
             IN  IF FieldLengthsOk(d, t)
                 THEN SubSeq(d, 1, 4) \o <<"-">> \o SubSeq(d, 5, 6) \o <<"-">>
                          \o SubSeq(d, 7, 8) \o <<" ">> \o SubSeq(t, 1, 2)
                          \o <<":">> \o SubSeq(t, 3, 4) \o <<":">>
                          \o SubSeq(t, 5, 6)
                 ELSE FrameLabel(pos)
        ELSE FrameLabel(pos)

\* Pieces of file names.
Merged == <<"m", "e", "r", "g", "e", "d">>

Tiles == <<"t", "i", "l", "e", "s">>

Date15 == <<"2", "0", "2", "4", "0", "1", "1", "5">>

Time1430 == <<"1", "4", "3", "0", "2", "2">>

Time0900 == <<"0", "9", "0", "0", "0", "0">>

Png == <<".", "p", "n", "g">>

AlphaDate == <<"a", "b", "c", "d", "e", "f", "g", "h">>

AlphaTime == <<"i", "j", "k", "l", "m", "n">>

Weird == <<"w", "e", "i", "r", "d">>

\* "_".join(fields)
RECURSIVE Join(_)
Join(fields) ==
    IF Len(fields) = 1 THEN fields[1]
    ELSE fields[1] \o <<"_">> \o Join(Tail(fields))

\* The underscore-separated fields file names are built from.
NameFields ==
    {Merged, Tiles, Date15, Time1430 \o Png, AlphaDate, AlphaTime \o Png,
     Weird \o Png}

\* File names have up to MaxFields fields and sit at indexes 0..MaxIndex.
MaxFields == 4

MaxIndex == 4

FileNames ==
    {Join(fs) : fs \in UNION {[1..n -> NameFields] : n \in 1..MaxFields}}

TsInit ==
    /\ filename \in FileNames
    /\ index \in 0..MaxIndex
    /\ ts_pc = "call"
    /\ ts_ret = <<>>

TsIdle ==
    /\ filename = <<>>
    /\ index = 0
    /\ ts_pc = "idle"
    /\ ts_ret = <<>>

BuildTimestamp ==
    /\ ts_pc = "call"
    /\ ts_ret' = build_timestamp(filename, index)
    /\ ts_pc' = "done"
    /\ UNCHANGED <<filename, index>>
    /\ UNCHANGED <<sizerVars, locVars, fitVars, bgVars, mainVars>>

TsNext == BuildTimestamp

(***************************************************************************)
(* get_images_for_date                                                     *)
(***************************************************************************)

\* glob's pattern merged_tiles_*.png on a base name.
GlobPrefix == Merged \o <<"_">> \o Tiles \o <<"_">>

GlobMatches(fname) ==
    /\ Len(fname) >= Len(GlobPrefix) + Len(Png)
    /\ SubSeq(fname, 1, Len(GlobPrefix)) = GlobPrefix
    /\ SubSeq(fname, Len(fname) - Len(Png) + 1, Len(fname)) = Png

\* The sort key of a path: date_time of the name when it has four fields,
\* the name itself otherwise.
key(fname) ==
    LET parts == Split(fname, "_")
    IN  IF Len(parts) >= 4
        THEN parts[3] \o <<"_">> \o Split(parts[4], ".")[1]
        ELSE fname

\* Where list.sort puts x in a list already sorted: after every element
\* whose key is not greater (the sort is stable).
InsertStable(x, sorted) ==
    LET k == Cardinality({j \in 1..Len(sorted) :
                 StrLeq(key(sorted[j]), key(x))})
    IN  SubSeq(sorted, 1, k) \o <<x>> \o SubSeq(sorted, k + 1, Len(sorted))

\* images.sort(key=key)
RECURSIVE SortFrom(_, _)
SortFrom(rest, sorted) ==
    IF rest = <<>> THEN sorted
    ELSE SortFrom(Tail(rest), InsertStable(Head(rest), sorted))

SortByKey(images) == SortFrom(images, <<>>)

\* The orders in which the file system may list a set of files.
Orders(S) ==
    {o \in [1..Cardinality(S) -> S] : \A a, b \in 1..Cardinality(S) :
         o[a] = o[b] => a = b}

\* Files a date folder may hold.
TileA == GlobPrefix \o Date15 \o <<"_">> \o Time1430 \o Png

TileABak == GlobPrefix \o Date15 \o <<"_">> \o Time1430 \o <<".", "b", "a", "k">> \o Png

TileB == GlobPrefix \o Date15 \o <<"_">> \o Time0900 \o Png

TileC == GlobPrefix \o Date15 \o <<"_">> \o Time1430 \o <<"_", "x">> \o Png

TileMap == GlobPrefix \o <<"m", "a", "p">> \o Png

FolderFiles == {TileA, TileABak, TileB, TileC, TileMap, Weird \o Png}

\* A date folder holds at most MaxFiles files.
MaxFiles == 4

NoFolder == [exists |-> FALSE, files |-> {}]

Folders ==
    {NoFolder} \cup
        {[exists |-> TRUE, files |-> S] :
             S \in {T \in SUBSET FolderFiles : Cardinality(T) <= MaxFiles}}

Matching(dir) == {f \in dir.files : GlobMatches(f)}

LocInit ==
    /\ folder \in Folders
    /\ loc_pc = "call"
    /\ loc_ret = <<>>

LocIdle ==
    /\ folder = NoFolder
    /\ loc_pc = "idle"
    /\ loc_ret = <<>>

\* get_images_for_date on a missing folder.
GetImagesNoFolder ==
    /\ loc_pc = "call"
    /\ ~folder.exists
    /\ loc_ret' = <<>>
    /\ loc_pc' = "done"
    /\ UNCHANGED folder
    /\ UNCHANGED <<sizerVars, tsVars, fitVars, bgVars, mainVars>>

\* get_images_for_date on a folder: glob lists the matching files in an
\* order of the file system's choosing, and the list is sorted by key.
GetImagesForDate ==
    /\ loc_pc = "call"
    /\ folder.exists
    /\ \E order \in Orders(Matching(folder)) : loc_ret' = SortByKey(order)
    /\ loc_pc' = "done"
    /\ UNCHANGED folder
    /\ UNCHANGED <<sizerVars, tsVars, fitVars, bgVars, mainVars>>

LocNext == GetImagesNoFolder \/ GetImagesForDate

(***************************************************************************)
(* resize_image_to_fit                                                     *)
(***************************************************************************)

\* The binary exponent of n / d: the largest e with 2^e * d <= n.
RECURSIVE ExpUp(_, _)
ExpUp(n, d) == IF 2 * d <= n THEN 1 + ExpUp(n, 2 * d) ELSE 0

RECURSIVE ExpDown(_, _)
ExpDown(n, d) == IF n < d THEN ExpDown(2 * n, d) - 1 ELSE 0

BinExp(n, d) == IF n >= d THEN ExpUp(n, d) ELSE ExpDown(n, d)

RECURSIVE Pow2(_)
Pow2(k) == IF k = 0 THEN 1 ELSE 2 * Pow2(k - 1)

\* (n * 2^k) mod d
RECURSIVE ShiftMod(_, _, _)
ShiftMod(n, k, d) == IF k = 0 THEN n % d ELSE ShiftMod((2 * n) % d, k - 1, d)

\* Bits of a double's significand after the leading one.
MantissaBits == 52

\* n / d in double precision is the quotient rounded to nearest, ties to
\* even.  When it is rounded down, the part cut off is rem / d units in the
\* last place; 0 when the quotient is exact or rounded up.
CutOff(n, d) ==
    LET k == MantissaBits - BinExp(n, d)
        rem == ShiftMod(n, k, d)
        odd == ShiftMod(n, k, 2 * d) >= d
    IN  IF 2 * rem < d \/ (2 * rem = d /\ ~odd) THEN rem ELSE 0

\* int(x * (n / d)) in double precision, for positive integers small enough
\* that d * (x * n \div d + 1) stays far below 2^52 (image sizes).  A product
\* that is not an integer truncates to its floor.  A product that is an
\* integer F comes out as F - 1 when the quotient was rounded down by more
\* than half the gap between F and the double below it.
FloatMulTrunc(x, n, d) ==
    LET F == (x * n) \div d
        rem == CutOff(n, d)
        eF == BinExp(F, 1)
        c == IF F = Pow2(eF) THEN 4 ELSE 2
        sh == eF - BinExp(n, d)
        below == IF sh >= 0 THEN c * x * rem > d * Pow2(sh)
                 ELSE c * x * rem * Pow2(0 - sh) > d
    IN  IF (x * n) % d # 0 \/ rem = 0 THEN F
        ELSE IF below THEN F - 1 ELSE F

\* scale = min(target_width / w, target_height / h), as numerator and
\* denominator of the quotient that is the smaller.
Scale(w, h, tw, th) ==
    IF tw * h <= th * w THEN [num |-> tw, den |-> w] ELSE [num |-> th, den |-> h]

\* The placement tuple (x, y, new_w, new_h) resize_image_to_fit returns.
resize_image_to_fit(w, h, tw, th) ==
    IF <<w, h>> = <<tw, th>> THEN <<0, 0, w, h>>
    ELSE LET scale == Scale(w, h, tw, th)
             new_w == FloatMulTrunc(w, scale.num, scale.den)
             new_h == FloatMulTrunc(h, scale.num, scale.den)
         IN  <<(tw - new_w) \div 2, (th - new_h) \div 2, new_w, new_h>>

\* Source and canvas dimensions are 1..MaxFitDim.
MaxFitDim == 15

FitSizes == (1..MaxFitDim) \X (1..MaxFitDim)

FitInit ==
    /\ fit_src \in FitSizes
    /\ fit_target \in FitSizes
    /\ fit_pc = "call"
    /\ fit_ret = <<0, 0, 0, 0>>

FitIdle ==
    /\ fit_src = <<1, 1>>
    /\ fit_target = <<1, 1>>
    /\ fit_pc = "idle"
    /\ fit_ret = <<0, 0, 0, 0>>

ResizeImageToFit ==
    /\ fit_pc = "call"
    /\ fit_ret' = resize_image_to_fit(fit_src[1], fit_src[2],
                                      fit_target[1], fit_target[2])
    /\ fit_pc' = "done"
    /\ UNCHANGED <<fit_src, fit_target>>
    /\ UNCHANGED <<sizerVars, tsVars, locVars, bgVars, mainVars>>

FitNext == ResizeImageToFit

(***************************************************************************)
(* load_and_prepare_background                                             *)
(***************************************************************************)

\* _BG_CACHE: None, or (w, h, img) with img the identity of an image.
NoCache == [full |-> FALSE, w |-> 0, h |-> 0, img |-> 0]

CacheHitAnySize(cache, tw, th) == cache.full

\* _BG_CACHE and _BG_CACHE[0] == target_w and _BG_CACHE[1] == target_h
CacheHit(cache, tw, th) == cache.full /\ cache.w = tw /\ cache.h = th

\* One request, recorded: the size asked for, whether the reference file was
\* opened, whether a background was built from it, and the image returned.
Request(tw, th, opened, built, img) ==
    [w |-> tw, h |-> th, opened |-> opened, built |-> built, img |-> img]

\* The state of the file at STATIC_MAP_PATH.
MapFiles == {"missing", "corrupt", "ok"}

\* Canvas sizes requested.
BgSizes == {<<2, 2>>, <<3, 2>>}

\* At most MaxRequests requests in a run.
MaxRequests == 4

BgInit ==
    /\ USE_MAP \in BOOLEAN
    /\ map_file \in MapFiles
    /\ _BG_CACHE = NoCache
    /\ bg_log = <<>>
    /\ bg_images = 0

BgIdle ==
    /\ USE_MAP = FALSE
    /\ map_file = "missing"
    /\ _BG_CACHE = NoCache
    /\ bg_log = <<>>
    /\ bg_images = 0

\* The cached background is returned.
BgFromCache(tw, th) ==
    /\ USE_MAP
    /\ CacheHit(_BG_CACHE, tw, th)
    /\ bg_log' = Append(bg_log, Request(tw, th, FALSE, FALSE, _BG_CACHE.img))
    /\ UNCHANGED <<_BG_CACHE, bg_images>>

\* The reference file is opened, scaled and cropped; the result is cached.
BgFromMap(tw, th) ==
    /\ USE_MAP
    /\ ~CacheHit(_BG_CACHE, tw, th)
    /\ map_file = "ok"
    /\ bg_images' = bg_images + 1
    /\ _BG_CACHE' = [full |-> TRUE, w |-> tw, h |-> th, img |-> bg_images + 1]
    /\ bg_log' = Append(bg_log, Request(tw, th, TRUE, TRUE, bg_images + 1))

\* The solid fallback: the mode is off, the file is missing, or opening it
\* raised.
BgSolid(tw, th) ==
    /\ ~USE_MAP \/ (~CacheHit(_BG_CACHE, tw, th) /\ map_file # "ok")
    /\ bg_images' = bg_images + 1
    /\ bg_log' = Append(bg_log,
           Request(tw, th, USE_MAP /\ map_file = "corrupt", FALSE,
                   bg_images + 1))
    /\ UNCHANGED _BG_CACHE

LoadAndPrepareBackground ==
    /\ Len(bg_log) < MaxRequests
    /\ \E size \in BgSizes :
           \/ BgFromCache(size[1], size[2])
           \/ BgFromMap(size[1], size[2])
           \/ BgSolid(size[1], size[2])
    /\ UNCHANGED <<USE_MAP, map_file>>
    /\ UNCHANGED <<sizerVars, tsVars, locVars, fitVars, mainVars>>

BgNext == LoadAndPrepareBackground

(***************************************************************************)
(* main and create_timelapse_video                                         *)
(***************************************************************************)

\* if not images (main)
MainNoImagesNever(images) == FALSE

MainNoImages(images) == images = <<>>

\* if not images (create_timelapse_video)
CreateNoImages(images) == images = <<>>

\* The index the frame loop goes to after the except clause has logged a
\* failed frame of a list of n images.
AfterFrameFailureAbort(k, n) == n

AfterFrameFailure(k, n) == k + 1

\* shutil.rmtree(temp_dir) runs when the encoder succeeded and KEEP_FRAMES
\* is empty or absent.
RemovesFramesAlways(ok, keep) == ~Truthy(keep)

RemovesFrames(ok, keep) == ok /\ ~Truthy(keep)

\* main's return value once create_timelapse_video returned True, whether
\* or not latest.mp4 could be updated.
MainResultNeedsAlias(aliasOk) == aliasOk

MainResultAfterAlias(aliasOk) == TRUE

\* sys.exit(0 if main() else 1)
ExitCode(result) == IF result THEN 0 ELSE 1

\* Settings of a flag variable: absent, empty, "1".
FlagSettings == {Unset, EnvStr(<<>>), EnvStr(<<"1">>)}

\* Date folders of a run: at most MaxImages files.
MaxImages == 4

RunFiles == {TileA, TileABak, TileB, TileC, Weird \o Png}

RunFolders ==
    {NoFolder} \cup
        {[exists |-> TRUE, files |-> S] :
             S \in {T \in SUBSET RunFiles : Cardinality(T) <= MaxImages}}

\* What inspecting a readable first image gives in a run.
RunImages == {ImageOfSize(4000, 3000)}

MainInit ==
    /\ folder \in RunFolders
    /\ loc_pc = "idle"
    /\ loc_ret = <<>>
    /\ \E forced \in {<<Unset, Unset>>,
                       <<EnvStr(<<"8", "0", "0">>), EnvStr(<<"6", "0", "0">>)>>} :
           env_w = forced[1] /\ env_h = forced[2]
    /\ ds \in {Unset, EnvStr(<<"2">>)}
    /\ im0 = NoImage
    /\ sizer_pc = "idle"
    /\ sizer_ret = <<0, 0>>
    /\ \E map \in {<<FALSE, "missing">>, <<TRUE, "ok">>, <<TRUE, "corrupt">>} :
           USE_MAP = map[1] /\ map_file = map[2]
    /\ _BG_CACHE = NoCache
    /\ bg_log = <<>>
    /\ bg_images = 0
    /\ pc = "main"
    /\ corrupt \in SUBSET Matching(folder)
    /\ KEEP_FRAMES \in FlagSettings
    /\ SKIP_LATEST_COPY \in FlagSettings
    /\ temp_dir = "none"
    /\ i = 0
    /\ visited = <<>>
    /\ written = <<>>
    /\ encoder = "idle"
    /\ encoder_calls = 0
    /\ created = "none"
    /\ output = "absent"
    /\ latest \in {"absent", "old"}
    /\ latest_touched = FALSE
    /\ alias_failed = FALSE
    /\ exit_code = -1

MainIdle ==
    /\ pc = "idle"
    /\ corrupt = {}
    /\ KEEP_FRAMES = Unset
    /\ SKIP_LATEST_COPY = Unset
    /\ temp_dir = "none"
    /\ i = 0
    /\ visited = <<>>
    /\ written = <<>>
    /\ encoder = "idle"
    /\ encoder_calls = 0
    /\ created = "none"
    /\ output = "absent"
    /\ latest = "absent"
    /\ latest_touched = FALSE
    /\ alias_failed = FALSE
    /\ exit_code = -1

\* main: images = get_images_for_date(date_str); no images ends the run.
MainLocate ==
    /\ pc = "main"
    /\ \E found \in IF folder.exists
                    THEN {SortByKey(order) : order \in Orders(Matching(folder))}
                    ELSE {<<>>} :
           /\ loc_ret' = found
           /\ IF MainNoImages(found)
              THEN pc' = "exit" /\ exit_code' = ExitCode(FALSE)
              ELSE pc' = "size" /\ UNCHANGED exit_code
    /\ loc_pc' = "done"
    /\ UNCHANGED <<tsVars, fitVars, folder, sizerVars, bgVars, corrupt, KEEP_FRAMES,
                   SKIP_LATEST_COPY, temp_dir, i, visited, written, encoder,
                   encoder_calls, created, output, latest, latest_touched,
                   alias_failed>>

\* main: vid_w, vid_h = determine_video_size(images)
MainSize ==
    /\ pc = "size"
    /\ \E first \in IF loc_ret = <<>> THEN {NoImage}
                    ELSE IF loc_ret[1] \in corrupt THEN {BadImage}
                    ELSE RunImages :
           /\ im0' = first
           /\ sizer_ret' = determine_video_size(env_w, env_h, ds, first)
    /\ sizer_pc' = "done"
    /\ pc' = "create"
    /\ UNCHANGED <<tsVars, fitVars, env_w, env_h, ds, locVars, bgVars, corrupt, KEEP_FRAMES,
                   SKIP_LATEST_COPY, temp_dir, i, visited, written, encoder,
                   encoder_calls, created, output, latest, latest_touched,
                   alias_failed, exit_code>>

\* create_timelapse_video: no images returns False; otherwise the frame
\* directory is made.
CreateStart ==
    /\ pc = "create"
    /\ IF CreateNoImages(loc_ret)
       THEN /\ created' = "False"
            /\ pc' = "result"
            /\ UNCHANGED temp_dir
       ELSE /\ temp_dir' = "exists"
            /\ pc' = "background"
            /\ UNCHANGED created
    /\ UNCHANGED <<tsVars, fitVars, sizerVars, locVars, bgVars, corrupt, KEEP_FRAMES,
                   SKIP_LATEST_COPY, i, visited, written, encoder,
                   encoder_calls, output, latest, latest_touched,
                   alias_failed, exit_code>>

\* create_timelapse_video: bg = load_and_prepare_background(w, h)
CreateBackground ==
    /\ pc = "background"
    /\ \/ BgFromCache(sizer_ret[1], sizer_ret[2])
       \/ BgFromMap(sizer_ret[1], sizer_ret[2])
       \/ BgSolid(sizer_ret[1], sizer_ret[2])
    /\ pc' = "frames"
    /\ UNCHANGED <<tsVars, fitVars, USE_MAP, map_file, sizerVars, locVars, corrupt,
                   KEEP_FRAMES, SKIP_LATEST_COPY, temp_dir, i, visited,
                   written, encoder, encoder_calls, created, output, latest,
                   latest_touched, alias_failed, exit_code>>

\* One pass of the frame loop on images[i]: the frame is composed and saved
\* as frame_<i>.png, or an exception is caught and logged.
CreateFrame ==
    /\ pc = "frames"
    /\ i < Len(loc_ret)
    /\ visited' = Append(visited, i)
    /\ IF loc_ret[i + 1] \in corrupt
       THEN /\ i' = AfterFrameFailure(i, Len(loc_ret))
            /\ UNCHANGED written
       ELSE /\ written' = Append(written, i)
            /\ i' = i + 1
    /\ UNCHANGED <<tsVars, fitVars, pc, sizerVars, locVars, bgVars, corrupt, KEEP_FRAMES,
                   SKIP_LATEST_COPY, temp_dir, encoder, encoder_calls,
                   created, output, latest, latest_touched, alias_failed,
                   exit_code>>

\* encode_with_ffmpeg: subprocess.run starts ffmpeg, or raises
\* FileNotFoundError when there is no ffmpeg.
EncodeStart ==
    /\ pc = "frames"
    /\ i >= Len(loc_ret)
    /\ encoder_calls' = encoder_calls + 1
    /\ \E found \in BOOLEAN :
           IF found
           THEN encoder' = "running" /\ pc' = "encoding"
           ELSE encoder' = "failed" /\ pc' = "cleanup"
    /\ UNCHANGED <<tsVars, fitVars, sizerVars, locVars, bgVars, corrupt, KEEP_FRAMES,
                   SKIP_LATEST_COPY, temp_dir, i, visited, written, created,
                   output, latest, latest_touched, alias_failed, exit_code>>

\* encode_with_ffmpeg: ffmpeg exits with 0, or with another code.
EncodeFinish ==
    /\ pc = "encoding"
    /\ \E returncode \in {0, 1} :
           IF returncode = 0
           THEN encoder' = "succeeded" /\ output' = "written"
           ELSE encoder' = "failed" /\ output' \in {"absent", "partial"}
    /\ pc' = "cleanup"
    /\ UNCHANGED <<tsVars, fitVars, sizerVars, locVars, bgVars, corrupt, KEEP_FRAMES,
                   SKIP_LATEST_COPY, temp_dir, i, visited, written,
                   encoder_calls, created, latest, latest_touched,
                   alias_failed, exit_code>>

\* create_timelapse_video: the frames are removed or kept, and ok returned.
CreateCleanup ==
    /\ pc = "cleanup"
    /\ temp_dir' = IF RemovesFrames(encoder = "succeeded", KEEP_FRAMES)
                   THEN "removed" ELSE temp_dir
    /\ created' = IF encoder = "succeeded" THEN "True" ELSE "False"
    /\ pc' = "result"
    /\ UNCHANGED <<tsVars, fitVars, sizerVars, locVars, bgVars, corrupt, KEEP_FRAMES,
                   SKIP_LATEST_COPY, i, visited, written, encoder,
                   encoder_calls, output, latest, latest_touched,
                   alias_failed, exit_code>>

\* main: create_timelapse_video returned False.
MainFailed ==
    /\ pc = "result"
    /\ created = "False"
    /\ exit_code' = ExitCode(FALSE)
    /\ pc' = "exit"
    /\ UNCHANGED <<tsVars, fitVars, sizerVars, locVars, bgVars, corrupt, KEEP_FRAMES,
                   SKIP_LATEST_COPY, temp_dir, i, visited, written, encoder,
                   encoder_calls, created, output, latest, latest_touched,
                   alias_failed>>

\* main: create_timelapse_video returned True and SKIP_LATEST_COPY is
\* non-empty: latest.mp4 is left alone.
MainSkipLatest ==
    /\ pc = "result"
    /\ created = "True"
    /\ Truthy(SKIP_LATEST_COPY)
    /\ exit_code' = ExitCode(TRUE)
    /\ pc' = "exit"
    /\ UNCHANGED <<tsVars, fitVars, sizerVars, locVars, bgVars, corrupt, KEEP_FRAMES,
                   SKIP_LATEST_COPY, temp_dir, i, visited, written, encoder,
                   encoder_calls, created, output, latest, latest_touched,
                   alias_failed>>

\* main: latest.mp4 is removed if it exists and the output copied over it;
\* an exception from either is caught and logged.
MainUpdateLatest ==
    /\ pc = "result"
    /\ created = "True"
    /\ ~Truthy(SKIP_LATEST_COPY)
    /\ latest_touched' = TRUE
    /\ \E copied \in BOOLEAN :
           /\ alias_failed' = ~copied
           /\ latest' \in IF copied THEN {"new"} ELSE {latest, "absent"}
           /\ exit_code' = ExitCode(MainResultAfterAlias(copied))
    /\ pc' = "exit"
    /\ UNCHANGED <<tsVars, fitVars, sizerVars, locVars, bgVars, corrupt, KEEP_FRAMES,
                   SKIP_LATEST_COPY, temp_dir, i, visited, written, encoder,
                   encoder_calls, created, output>>

MainNext ==
    (\/ MainLocate
     \/ MainSize
     \/ CreateStart
     \/ CreateBackground
     \/ CreateFrame
     \/ EncodeStart
     \/ EncodeFinish
     \/ CreateCleanup
     \/ MainFailed
     \/ MainSkipLatest
     \/ MainUpdateLatest)

(***************************************************************************)
(* Specifications                                                          *)
(***************************************************************************)

InitSizer == SizerInit /\ TsIdle /\ LocIdle /\ FitIdle /\ BgIdle /\ MainIdle

InitTimestamp == SizerIdle /\ TsInit /\ LocIdle /\ FitIdle /\ BgIdle /\ MainIdle

InitLocator == SizerIdle /\ TsIdle /\ LocInit /\ FitIdle /\ BgIdle /\ MainIdle

InitFit == SizerIdle /\ TsIdle /\ LocIdle /\ FitInit /\ BgIdle /\ MainIdle

InitBackground == SizerIdle /\ TsIdle /\ LocIdle /\ FitIdle /\ BgInit /\ MainIdle

\* One run of the program: main from start to exit.
Init == TsIdle /\ FitIdle /\ MainInit

Next == MainNext

\* One call of determine_video_size.
SpecSizer == InitSizer /\ [][SizerNext]_vars

\* One call of build_timestamp.
SpecTimestamp == InitTimestamp /\ [][TsNext]_vars

\* One call of get_images_for_date.
SpecLocator == InitLocator /\ [][LocNext]_vars

\* One call of resize_image_to_fit.
SpecFit == InitFit /\ [][FitNext]_vars

\* A sequence of calls of load_and_prepare_background in one process.
SpecBackground == InitBackground /\ [][BgNext]_vars

Spec == Init /\ [][Next]_vars

(***************************************************************************)
(* Properties of determine_video_size                                      *)
(***************************************************************************)

\* An override string is an integer when int() accepts it.
BothOverridesParse ==
    /\ Truthy(env_w) /\ ParseInt(env_w.s).ok
    /\ Truthy(env_h) /\ ParseInt(env_h.s).ok

DivisorOf(d) == IF Truthy(d) THEN ParseInt(d.s) ELSE [ok |-> FALSE, val |-> 0]

\* C1: determine_video_size decides first-match-wins: the override pair when
\* both overrides are set and are integers; else the first image divided by
\* an integer divisor f > 1 that divides both dimensions; else the first
\* image halved when its width is >= 4000 and both dimensions are even; else
\* the first image's own size; and (3000, 3000) when there is no image or it
\* cannot be inspected.  A divisor that is no integer or does not divide
\* falls through to the halving rule.
C1_DecisionOrder ==
    sizer_pc = "done" =>
        IF BothOverridesParse
        THEN sizer_ret = <<ParseInt(env_w.s).val, ParseInt(env_h.s).val>>
        ELSE IF im0.kind # "ok"
        THEN sizer_ret = <<3000, 3000>>
        ELSE IF DivisorOf(ds).ok /\ DivisorOf(ds).val > 1
                /\ im0.sw % DivisorOf(ds).val = 0
                /\ im0.sh % DivisorOf(ds).val = 0
        THEN /\ sizer_ret[1] * DivisorOf(ds).val = im0.sw
             /\ sizer_ret[2] * DivisorOf(ds).val = im0.sh
        ELSE IF im0.sw >= 4000 /\ im0.sw % 2 = 0 /\ im0.sh % 2 = 0
        THEN sizer_ret[1] * 2 = im0.sw /\ sizer_ret[2] * 2 = im0.sh
        ELSE sizer_ret = <<im0.sw, im0.sh>>

\* A run in which a divisor that does not divide fell through to the halving
\* rule: DOWNSCALE_FACTOR=3 on a 4000 x 4000 first image gives 2000 x 2000.
C1_Witness ==
    /\ sizer_pc = "done"
    /\ ~BothOverridesParse
    /\ ds = EnvStr(<<"3">>)
    /\ im0 = ImageOfSize(4000, 4000)
    /\ sizer_ret = <<2000, 2000>>

\* C2: the size determine_video_size returns has a positive width and a
\* positive height, whatever the overrides, the divisor and the images.
C2_PositiveSize ==
    sizer_pc = "done" => sizer_ret[1] > 0 /\ sizer_ret[2] > 0

(***************************************************************************)
(* Properties of build_timestamp                                           *)
(***************************************************************************)

AllDigits(s) == \A k \in 1..Len(s) : IsDigit(s[k])

\* <prefix>_<prefix2>_<8-digit-date>_<6-digit-time>.<ext>
MatchesNamePattern(fname) ==
    LET parts == Split(fname, "_")
    IN  /\ Len(parts) = 4
        /\ Len(parts[3]) = 8
        /\ AllDigits(parts[3])
        /\ Len(parts[4]) > 7
        /\ AllDigits(SubSeq(parts[4], 1, 6))
        /\ parts[4][7] = "."

\* C7: build_timestamp gives YYYY-MM-DD HH:MM:SS, sliced from the date and
\* time fields, for a name of the form
\* <prefix>_<prefix2>_<8-digit-date>_<6-digit-time>.<ext>, whatever the
\* index, and "Frame <index+1>" for every other name, also when the third and
\* fourth fields have the right lengths but are not digits.
C7_Timestamp ==
    ts_pc = "done" =>
        IF MatchesNamePattern(filename)
        THEN LET parts == Split(filename, "_")
                 d == parts[3]
                 t == SubSeq(parts[4], 1, 6)
             IN  ts_ret = <<d[1], d[2], d[3], d[4], "-", d[5], d[6], "-", d[7],
                            d[8], " ", t[1], t[2], ":", t[3], t[4], ":", t[5],
                            t[6]>>
        ELSE ts_ret = <<"F", "r", "a", "m", "e", " ">> \o IntToStr(index + 1)

(***************************************************************************)
(* Properties of get_images_for_date                                       *)
(***************************************************************************)

\* C8: for a folder with at least one matching image, get_images_for_date
\* returns every matching file exactly once, in ascending order of the key,
\* and the order returned is the same for every order in which the file
\* system lists the files, also when two files share a key.
C8_DeterministicOrder ==
    (loc_pc = "done" /\ folder.exists /\ Matching(folder) # {}) =>
        /\ Len(loc_ret) = Cardinality(Matching(folder))
        /\ \A f \in Matching(folder) : \E k \in 1..Len(loc_ret) : loc_ret[k] = f
        /\ \A a, b \in 1..Len(loc_ret) :
               a < b => StrLeq(key(loc_ret[a]), key(loc_ret[b]))
        /\ \A order \in Orders(Matching(folder)) : SortByKey(order) = loc_ret

(***************************************************************************)
(* Properties of resize_image_to_fit                                       *)
(***************************************************************************)

\* C10: for positive sizes, a source equal to the canvas is placed unscaled
\* at (0, 0); otherwise the scaled size is (floor(w*s), floor(h*s)) with
\* s = min(W/w, H/h), each scaled dimension is at most the canvas dimension,
\* and the offset is (floor((W - scaledW)/2), floor((H - scaledH)/2)), both
\* components >= 0.
C10_FitGeometry ==
    fit_pc = "done" =>
        LET w == fit_src[1]
            h == fit_src[2]
            W == fit_target[1]
            H == fit_target[2]
            byWidth == W * h <= H * w
            scaledW == IF byWidth THEN (w * W) \div w ELSE (w * H) \div h
            scaledH == IF byWidth THEN (h * W) \div w ELSE (h * H) \div h
        IN  IF <<w, h>> = <<W, H>>
            THEN fit_ret = <<0, 0, w, h>>
            ELSE /\ fit_ret[3] = scaledW
                 /\ fit_ret[4] = scaledH
                 /\ fit_ret[3] <= W
                 /\ fit_ret[4] <= H
                 /\ fit_ret[1] = (W - scaledW) \div 2
                 /\ fit_ret[2] = (H - scaledH) \div 2
                 /\ fit_ret[1] >= 0
                 /\ fit_ret[2] >= 0

(***************************************************************************)
(* Properties of load_and_prepare_background                               *)
(***************************************************************************)

SameSize(a, b) == a.w = b.w /\ a.h = b.h

LastBuilt(b) ==
    IF \E a \in 1..(b - 1) : bg_log[a].built
    THEN CHOOSE a \in 1..(b - 1) :
             bg_log[a].built /\ \A k \in (a + 1)..(b - 1) : ~bg_log[k].built
    ELSE 0

GoodFrames == {k \in 0..(Len(loc_ret) - 1) : loc_ret[k + 1] \notin corrupt}

\* C3: a failure on one image is isolated.  The loop visits every image in
\* order; each image that succeeds writes exactly one frame file and each
\* that fails writes none, so k successes give k files; the encoder is
\* invoked exactly once, after the last image; and the run reports success
\* whenever the encoder succeeds.
C3_FrameIsolation ==
    /\ encoder_calls <= 1
    /\ \A p \in 1..Len(visited) : visited[p] = p - 1
    /\ \A p \in 1..Len(written) : written[p] \in GoodFrames
    /\ \A p, q \in 1..Len(written) : written[p] = written[q] => p = q
    /\ encoder_calls = 1 =>
           /\ Len(visited) = Len(loc_ret)
           /\ Len(written) = Cardinality(GoodFrames)
    /\ (pc = "exit" /\ loc_ret # <<>>) => encoder_calls = 1
    /\ (pc = "exit" /\ encoder = "succeeded") => exit_code = 0

\* Four images, one of them corrupt: three frames, one encoder call, success.
C3_Witness ==
    /\ pc = "exit"
    /\ Len(loc_ret) = 4
    /\ Cardinality(corrupt) = 1
    /\ Len(written) = 3
    /\ encoder_calls = 1
    /\ exit_code = 0

\* C4: when the locator returns no image (no folder, or no matching file),
\* the run fails without reaching any later step: no size is determined, no
\* background requested, no frame directory made, no frame composed, the
\* encoder is not invoked, latest.mp4 is not touched and no video is written.
C4_NoImagesNoWork ==
    (pc # "main" /\ loc_ret = <<>>) =>
        /\ pc = "exit"
        /\ exit_code = 1
        /\ sizer_pc = "idle"
        /\ bg_log = <<>>
        /\ temp_dir = "none"
        /\ visited = <<>>
        /\ written = <<>>
        /\ encoder_calls = 0
        /\ encoder = "idle"
        /\ created = "none"
        /\ ~latest_touched
        /\ latest # "new"
        /\ output = "absent"

\* A folder that exists but holds no matching file ended the run.
C4_Witness ==
    /\ pc = "exit"
    /\ folder.exists
    /\ folder.files # {}
    /\ loc_ret = <<>>
    /\ exit_code = 1

\* C5: the frame directory's fate is decided only after the encoder has
\* finished.  It is never removed before or during encoding; after encoder
\* success it is removed unless KEEP_FRAMES is set (to a non-empty value) and
\* then still exists at the end; after encoder failure (no executable, or a
\* non-zero exit) it still exists at the end and create_timelapse_video
\* returns False.
C5_FrameDirFate ==
    /\ pc \in {"background", "frames", "encoding", "cleanup"} =>
           temp_dir = "exists"
    /\ temp_dir = "removed" =>
           /\ encoder = "succeeded"
           /\ ~Truthy(KEEP_FRAMES)
           /\ pc \in {"result", "exit"}
    /\ (pc = "exit" /\ encoder_calls = 1) =>
           /\ (encoder = "succeeded" /\ ~Truthy(KEEP_FRAMES)) =>
                  temp_dir = "removed"
           /\ (encoder = "succeeded" /\ Truthy(KEEP_FRAMES)) =>
                  temp_dir = "exists"
           /\ encoder = "failed" =>
                  /\ temp_dir = "exists"
                  /\ created = "False"
                  /\ exit_code = 1

\* The encoder failed with KEEP_FRAMES absent, and the frames are still there.
C5_Witness ==
    /\ pc = "exit"
    /\ encoder = "failed"
    /\ KEEP_FRAMES = Unset
    /\ written # <<>>
    /\ temp_dir = "exists"

\* C6: the exit code is 0 exactly when at least one image was found and the
\* encoder succeeded, and 1 otherwise; skipped frames and a failure to write
\* latest.mp4 do not turn a success into a failure.  latest.mp4 is touched
\* only after encoder success and only when SKIP_LATEST_COPY is not set (to a
\* non-empty value).
C6_ExitCode ==
    /\ pc = "exit" =>
           /\ exit_code \in {0, 1}
           /\ exit_code = 0 <=> (loc_ret # <<>> /\ encoder = "succeeded")
    /\ pc # "exit" => exit_code = -1
    /\ latest_touched =>
           /\ encoder = "succeeded"
           /\ ~Truthy(SKIP_LATEST_COPY)
    /\ (latest = "new" \/ alias_failed) => latest_touched

\* A run with a skipped frame whose copy to latest.mp4 failed exits with 0.
C6_Witness ==
    /\ pc = "exit"
    /\ exit_code = 0
    /\ alias_failed
    /\ Len(written) < Len(loc_ret)

====
